---------------------------- MODULE Spec2Model ----------------------------
(***************************************************************************)
(* PNGCrypt: the chunk engine of a PNG container.                          *)
(*   src/src/chunk_type.rs  ChunkType  (4-byte type code)                  *)
(*   src/src/chunk.rs       Chunk      (length, type, payload, crc)        *)
(*   src/src/commands.rs    Commands   (encode / decode / remove)          *)
(*   png.rs (the container) is not among the sources; its operations are   *)
(*   modelled from the specification's section 4.3.                        *)
(*                                                                         *)
(* Representation.  A byte is a number in 0..255, a byte buffer a sequence *)
(* of bytes, a String the sequence of its UTF-8 bytes.  TLC's integers are *)
(* 32-bit signed, so a u32 checksum is kept as two 16-bit limbs <<hi, lo>> *)
(* (value hi * 65536 + lo); lengths are plain naturals below 2^31.         *)
(***************************************************************************)
EXTENDS Integers, Sequences, FiniteSets, TLC

(***************************************************************************)
(* Bytes, bits and big-endian u32                                          *)
(***************************************************************************)
RECURSIVE Pow2(_)
Pow2(k) == IF k = 0 THEN 1 ELSE 2 * Pow2(k - 1)

\* bitwise exclusive or of two 4-bit numbers
Xor(a, b) ==
      ((a + b) % 2)
    + (((a \div 2) + (b \div 2)) % 2) * 2
    + (((a \div 4) + (b \div 4)) % 2) * 4
    + (((a \div 8) + (b \div 8)) % 2) * 8

\* the same, tabulated once
XorNibble == [a \in 0..15 |-> [b \in 0..15 |-> Xor(a, b)]]

\* exclusive or of two bytes, nibble by nibble
XorByte(a, b) ==
    XorNibble[a \div 16][b \div 16] * 16 + XorNibble[a % 16][b % 16]

\* exclusive or of two 16-bit limbs, byte by byte
Xor16(x, y) ==
    XorByte(x \div 256, y \div 256) * 256 + XorByte(x % 256, y % 256)

\* exclusive or of two u32 values kept as limbs
Xor32(x, y) == << Xor16(x[1], y[1]), Xor16(x[2], y[2]) >>

\* u32 >> 1 and u32 >> 8 on limbs
Shr1(x) == << x[1] \div 2, (x[1] % 2) * 32768 + (x[2] \div 2) >>
Shr8(x) == << x[1] \div 256, (x[1] % 256) * 256 + (x[2] \div 256) >>

\* u32::to_be_bytes of a checksum kept as limbs
CrcToBeBytes(x) == << x[1] \div 256, x[1] % 256, x[2] \div 256, x[2] % 256 >>

\* u32::from_be_bytes giving limbs
CrcFromBeBytes(b) == << b[1] * 256 + b[2], b[3] * 256 + b[4] >>

\* u32::to_be_bytes of a length (a natural below 2^31)
LenToBeBytes(n) ==
    << n \div 16777216, (n \div 65536) % 256, (n \div 256) % 256, n % 256 >>

\* u32::from_be_bytes giving a natural (the first byte is below 128 in
\* every buffer of the model: larger values do not fit TLC's integers)
LenFromBeBytes(b) == ((b[1] * 256 + b[2]) * 256 + b[3]) * 256 + b[4]

(***************************************************************************)
(* CRC-32/IEEE (crc::crc32::checksum_ieee): reflected polynomial           *)
(* 0xEDB88320, initial value and final xor 0xFFFFFFFF, table driven.       *)
(***************************************************************************)
IEEE == << 60856, 33568 >>            \* 0xEDB8_8320
AllOnes == << 65535, 65535 >>         \* 0xFFFF_FFFF

RECURSIVE TableEntry(_, _)
TableEntry(c, k) ==
    IF k = 0 THEN c
    ELSE TableEntry(IF c[2] % 2 = 1 THEN Xor32(Shr1(c), IEEE) ELSE Shr1(c), k - 1)

IEEE_TABLE == [n \in 0..255 |-> TableEntry(<< 0, n >>, 8)]

\* the table with each entry as its four big-endian bytes, and the
\* exclusive or of two bytes tabulated
IEEE_TABLE_BYTES == [n \in 0..255 |-> CrcToBeBytes(IEEE_TABLE[n])]
XorTable == [a \in 0..255 |-> [b \in 0..255 |-> XorByte(a, b)]]

\* crc = table[(crc ^ byte) & 0xFF] ^ (crc >> 8) for each byte in turn, the
\* running value crc kept as its four big-endian bytes
RECURSIVE CrcUpdate(_, _, _)
CrcUpdate(crc, bytes, i) ==
    IF i > Len(bytes) THEN crc
    ELSE LET entry == IEEE_TABLE_BYTES[XorTable[crc[4]][bytes[i]]]
         IN  CrcUpdate(<< entry[1],
                          XorTable[entry[2]][crc[1]],
                          XorTable[entry[3]][crc[2]],
                          XorTable[entry[4]][crc[3]] >>,
                       bytes, i + 1)

checksum_ieee(bytes) ==
    Xor32(CrcFromBeBytes(CrcUpdate(CrcToBeBytes(AllOnes), bytes, 1)), AllOnes)


(***************************************************************************)
(* Results.  Ok(v) and Err(e) are the two cases of anyhow::Result; Panic   *)
(* is an unwinding panic (an index out of range, an unwrap of an Err):     *)
(* the caller gets no value at all.  None marks "not called yet".          *)
(***************************************************************************)
Ok(v) == [tag |-> "Ok", val |-> v]
Err(e) == [tag |-> "Err", err |-> e]
Panic == [tag |-> "Panic"]
None == [tag |-> "None"]

(***************************************************************************)
(* std::str::from_utf8: the well-formed UTF-8 byte sequences               *)
(***************************************************************************)
IsCont(b) == b >= 128 /\ b <= 191

RECURSIVE IsUtf8From(_, _)
IsUtf8From(b, i) ==
    IF i > Len(b) THEN TRUE
    ELSE IF b[i] < 128 THEN IsUtf8From(b, i + 1)
    ELSE IF b[i] >= 194 /\ b[i] <= 223
        THEN /\ i + 1 <= Len(b)
             /\ IsCont(b[i + 1])
             /\ IsUtf8From(b, i + 2)
    ELSE IF b[i] >= 224 /\ b[i] <= 239
        THEN /\ i + 2 <= Len(b)
             /\ IsCont(b[i + 1])
             /\ (b[i] = 224 => b[i + 1] >= 160)
             /\ (b[i] = 237 => b[i + 1] <= 159)
             /\ IsCont(b[i + 2])
             /\ IsUtf8From(b, i + 3)
    ELSE IF b[i] >= 240 /\ b[i] <= 244
        THEN /\ i + 3 <= Len(b)
             /\ IsCont(b[i + 1])
             /\ (b[i] = 240 => b[i + 1] >= 144)
             /\ (b[i] = 244 => b[i + 1] <= 143)
             /\ IsCont(b[i + 2])
             /\ IsCont(b[i + 3])
             /\ IsUtf8From(b, i + 4)
    ELSE FALSE

from_utf8(b) == IF IsUtf8From(b, 1) THEN Ok(b) ELSE Err("Utf8Error")

(***************************************************************************)
(* ChunkType (chunk_type.rs)                                               *)
(***************************************************************************)
CHUNK_TYPE_SIZE == 4

\* the closure used by from_str and is_valid
IsAsciiLetter(elem) == (elem >= 65 /\ elem <= 90) \/ (elem >= 97 /\ elem <= 122)

\* impl TryFrom<[u8; 4]> for ChunkType
ChunkType_try_from(value) == Ok([bytes |-> value])

\* from_str with the length looked at before the letters
ChunkType_from_str_LengthFirst(value) ==
    IF Len(value) # 4
        THEN Err([enum |-> "ChunkTypeError", kind |-> "InconsistentByteLength",
                  arg |-> Len(value)])
    ELSE IF ~(\A i \in 1..Len(value) : IsAsciiLetter(value[i]))
        THEN Err([enum |-> "ChunkTypeError", kind |-> "InvalidChunkType",
                  arg |-> value])
    ELSE ChunkType_try_from(<< value[1], value[2], value[3], value[4] >>)

\* impl FromStr for ChunkType; value is the &str given as its bytes
ChunkType_from_str(value) ==
    LET values == value
        letters_only == \A i \in 1..Len(values) : IsAsciiLetter(values[i])
    IN  IF ~letters_only
            THEN Err([enum |-> "ChunkTypeError", kind |-> "InvalidChunkType",
                      arg |-> value])
        ELSE IF Len(values) # 4
            THEN Err([enum |-> "ChunkTypeError", kind |-> "InconsistentByteLength",
                      arg |-> Len(values)])
        ELSE ChunkType_try_from(<< values[1], values[2], values[3], values[4] >>)

\* Display that writes three of the four bytes
ChunkType_to_string_Short(ct) ==
    LET _str == from_utf8(SubSeq(ct.bytes, 1, 3))
    IN  IF _str.tag = "Ok" THEN Ok(_str.val) ELSE Panic

\* Display that writes the letters in upper case
ChunkType_to_string_Upper(ct) ==
    LET _str == from_utf8(ct.bytes)
    IN  IF _str.tag = "Ok"
            THEN Ok([i \in 1..4 |->
                        IF _str.val[i] >= 97 /\ _str.val[i] <= 122
                            THEN _str.val[i] - 32 ELSE _str.val[i]])
        ELSE Panic

\* impl fmt::Display for ChunkType (to_string): from_utf8(..).unwrap()
ChunkType_to_string(ct) ==
    LET _str == from_utf8(ct.bytes)
    IN  IF _str.tag = "Ok" THEN Ok(_str.val) ELSE Panic

is_critical(ct) == ct.bytes[1] >= 65 /\ ct.bytes[1] <= 90
is_public(ct) == ct.bytes[2] >= 65 /\ ct.bytes[2] <= 90
is_reserved_bit_valid(ct) == ct.bytes[3] >= 65 /\ ct.bytes[3] <= 90
is_safe_to_copy(ct) == ct.bytes[4] >= 97 /\ ct.bytes[4] <= 122

is_valid(ct) ==
    /\ \A i \in 1..CHUNK_TYPE_SIZE : IsAsciiLetter(ct.bytes[i])
    /\ is_reserved_bit_valid(ct)


(***************************************************************************)
(* Chunk (chunk.rs)                                                        *)
(***************************************************************************)
LENGTH_SIZE == 4
CRC_SIZE == 4

\* value[from..to] of a Rust slice (0-based, half open): panics when the
\* range does not lie inside the slice
Slice(value, from, to) ==
    IF from > to \/ to > Len(value) THEN Panic
    ELSE Ok(SubSeq(value, from + 1, to))

\* Chunk::new with the checksum taken over the payload alone
Chunk_new_DataOnly(chunk_type, data) ==
    [chunk_type |-> chunk_type, data |-> data, length |-> Len(data),
     crc |-> checksum_ieee(data)]

\* Chunk::new
Chunk_new(chunk_type, data) ==
    LET length == Len(data)              \* data.len() as u32
        chained == chunk_type.bytes \o data
        crc == checksum_ieee(chained)
    IN  [chunk_type |-> chunk_type, data |-> data, length |-> length, crc |-> crc]

\* as_bytes with the length written little-endian
Chunk_as_bytes_LittleEndian(c) ==
    << c.length % 256, (c.length \div 256) % 256, (c.length \div 65536) % 256,
       c.length \div 16777216 >>
    \o c.chunk_type.bytes \o c.data \o CrcToBeBytes(c.crc)

\* Chunk::as_bytes
Chunk_as_bytes(c) ==
    LenToBeBytes(c.length) \o c.chunk_type.bytes \o c.data \o CrcToBeBytes(c.crc)

\* the third check left out
CheckChunkType_Unchecked(chunk_type, ok) == Ok(ok)

\* the third check of try_from and its error value
CheckChunkType(chunk_type, ok) ==
    IF ~is_valid(chunk_type)
        THEN LET text == ChunkType_to_string(chunk_type)
             IN  IF text.tag = "Panic" THEN Panic
                 ELSE Err([enum |-> "ChunkError", kind |-> "InvalidChunkType",
                           arg |-> text.val])
    ELSE Ok(ok)

\* the checks with the checksum comparison left out
CheckChunk_NoCrc(chunk_type, length, data, crc, stored) ==
    IF Len(data) # length
        THEN Err([enum |-> "ChunkError", kind |-> "InvalidLength", arg |-> length])
    ELSE CheckChunkType(chunk_type,
            [chunk_type |-> chunk_type, data |-> data, length |-> length, crc |-> crc])

\* the checks with the type code looked at first
CheckChunk_TypeFirst(chunk_type, length, data, crc, stored) ==
    LET typed == CheckChunkType(chunk_type,
            [chunk_type |-> chunk_type, data |-> data, length |-> length, crc |-> crc])
    IN  IF typed.tag # "Ok" THEN typed
        ELSE IF crc # CrcFromBeBytes(stored)
            THEN Err([enum |-> "ChunkError", kind |-> "InvalidCrc", arg |-> crc])
        ELSE IF Len(data) # length
            THEN Err([enum |-> "ChunkError", kind |-> "InvalidLength", arg |-> length])
        ELSE typed

\* the checks of try_from once every slice has been taken
CheckChunk(chunk_type, length, data, crc, stored) ==
    IF crc # CrcFromBeBytes(stored)
        THEN Err([enum |-> "ChunkError", kind |-> "InvalidCrc", arg |-> crc])
    ELSE IF Len(data) # length
        THEN Err([enum |-> "ChunkError", kind |-> "InvalidLength", arg |-> length])
    ELSE CheckChunkType(chunk_type,
            [chunk_type |-> chunk_type, data |-> data, length |-> length, crc |-> crc])

\* impl TryFrom<&[u8]> for Chunk
Chunk_try_from(value) ==
    LET length_data == Slice(value, 0, LENGTH_SIZE)
        chunk_type_data == Slice(value, LENGTH_SIZE, LENGTH_SIZE + CHUNK_TYPE_SIZE)
    IN  IF length_data.tag = "Panic" \/ chunk_type_data.tag = "Panic" THEN Panic
        ELSE
        LET length == LenFromBeBytes(length_data.val)
            chunk_type == ChunkType_try_from(chunk_type_data.val).val
            data_last_index == length + LENGTH_SIZE + CHUNK_TYPE_SIZE
            covered == Slice(value, LENGTH_SIZE, data_last_index)
            data == Slice(value, 8, data_last_index)
            stored == Slice(value, data_last_index, data_last_index + CRC_SIZE)
        IN  IF covered.tag = "Panic" \/ data.tag = "Panic" \/ stored.tag = "Panic"
                THEN Panic
            ELSE CheckChunk(chunk_type, length, data.val,
                            checksum_ieee(covered.val), stored.val)


(***************************************************************************)
(* The container (png.rs, absent from the sources): section 4.3 of the     *)
(* specification.  A container is its ordered sequence of chunks; the      *)
(* signature is a constant.                                                *)
(***************************************************************************)
STANDARD_HEADER == << 137, 80, 78, 71, 13, 10, 26, 10 >>

NotFound == [enum |-> "PngError", kind |-> "ChunkNotFound"]
BadHeader == [enum |-> "PngError", kind |-> "InvalidHeader"]

\* Chunk::parse on the rest of the buffer, the cursor advanced by the
\* chunk's serialized size, until the input is exhausted
RECURSIVE ParseChunks(_, _, _)
ParseChunks(bytes, cursor, chunks) ==
    IF cursor >= Len(bytes) THEN Ok(chunks)
    ELSE LET r == Chunk_try_from(SubSeq(bytes, cursor + 1, Len(bytes)))
         IN  IF r.tag # "Ok" THEN r
             ELSE ParseChunks(bytes,
                              cursor + LENGTH_SIZE + CHUNK_TYPE_SIZE
                                     + r.val.length + CRC_SIZE,
                              Append(chunks, r.val))

\* ChunkContainer::parse
Png_try_from(bytes) ==
    IF Len(bytes) < Len(STANDARD_HEADER)
       \/ SubSeq(bytes, 1, Len(STANDARD_HEADER)) # STANDARD_HEADER
        THEN Err(BadHeader)
    ELSE ParseChunks(bytes, Len(STANDARD_HEADER), << >>)

\* append_chunk
Png_append_chunk(chunks, chunk) == Append(chunks, chunk)

\* index of the first chunk whose type text equals the text, 0 if none
FirstMatch(chunks, text) ==
    LET hits == {i \in 1..Len(chunks) :
                    ChunkType_to_string(chunks[i].chunk_type) = Ok(text)}
    IN  IF hits = {} THEN 0
        ELSE CHOOSE i \in hits : \A j \in hits : i <= j

\* chunk_by_type
Png_chunk_by_type(chunks, text) ==
    LET i == FirstMatch(chunks, text)
    IN  IF i = 0 THEN Err(NotFound) ELSE Ok(chunks[i])

\* remove_chunk: the result and the sequence left behind
Png_remove_chunk(chunks, text) ==
    LET i == FirstMatch(chunks, text)
    IN  IF i = 0 THEN [ret |-> Err(NotFound), chunks |-> chunks]
        ELSE [ret |-> Ok(chunks[i]),
              chunks |-> SubSeq(chunks, 1, i - 1) \o SubSeq(chunks, i + 1, Len(chunks))]

\* as_bytes
RECURSIVE ChunksAsBytes(_, _)
ChunksAsBytes(chunks, i) ==
    IF i > Len(chunks) THEN << >>
    ELSE Chunk_as_bytes(chunks[i]) \o ChunksAsBytes(chunks, i + 1)

Png_as_bytes(chunks) == STANDARD_HEADER \o ChunksAsBytes(chunks, 1)


(***************************************************************************)
(* Bounds and input samples                                                *)
(***************************************************************************)
MaxData == 2          \* longest payload given to Chunk::new
MaxText == 5          \* most characters of a text given to from_str
MaxChunks == 3        \* most chunks a container holds

\* "RuSt", the type code of the tests
RuSt == << 82, 117, 83, 116 >>

\* bytes at and around the borders of the two letter ranges, a digit,
\* a UTF-8 continuation byte and 0xFF
SampleBytes == {49, 64, 65, 90, 91, 96, 97, 122, 123, 128, 255}

\* 4-byte type codes: RuSt with one byte replaced, and codes holding the
\* two-byte UTF-8 character U+00E9 (0xC3 0xA9)
RawTypes ==
    {RuSt}
    \cup {[RuSt EXCEPT ![i] = b] : i \in 1..4, b \in SampleBytes}
    \cup {<< 195, 169, 83, 116 >>, << 82, 195, 169, 116 >>, << 82, 117, 195, 169 >>}

\* the same codes as text, where they are text at all
TypeTexts == {t \in RawTypes : from_utf8(t).tag = "Ok"}

PayloadBytes == {0, 255}

RECURSIVE SeqsUpTo(_, _)
SeqsUpTo(S, n) ==
    IF n = 0 THEN {<< >>}
    ELSE LET shorter == SeqsUpTo(S, n - 1)
         IN  shorter \cup {Append(t, x) : t \in shorter, x \in S}

Payloads == SeqsUpTo(PayloadBytes, MaxData)

\* characters of the texts given to from_str, each as its UTF-8 bytes:
\* A Z a z 1 @ and U+00E9
Chars == {<< 65 >>, << 90 >>, << 97 >>, << 122 >>, << 49 >>, << 64 >>, << 195, 169 >>}

RECURSIVE TextsUpTo(_)
TextsUpTo(n) ==
    IF n = 0 THEN {<< >>}
    ELSE LET shorter == TextsUpTo(n - 1)
         IN  shorter \cup {t \o c : t \in shorter, c \in Chars}

Texts == TextsUpTo(MaxText)

(***************************************************************************)
(* State                                                                   *)
(***************************************************************************)
VARIABLES
    tin,      \* ChunkType: how the last type code was asked for
    ctype,    \* ChunkType: the result of that construction
    valid,    \* ChunkType: the result of is_valid() on it
    pc,       \* Chunk: "start", "built", "serialized", "tampered", "parsed"
    via,      \* Chunk: how the type code given to Chunk::new was made
    chunk,    \* Chunk: the value Chunk::new returned
    value,    \* Chunk: the byte buffer handed to try_from
    tamper,   \* Chunk: what was done to the buffer after as_bytes
    parsed,   \* Chunk: the result of try_from(value)
    png,      \* container: its chunk sequence
    prev,     \* container: the chunk sequence before the last operation
    op,       \* container: the last operation and its argument
    ret,      \* container: what the last operation returned
    file,     \* Commands: the bytes of the file on disk
    cmd,      \* Commands: the last command run, "none" before the first
    token,    \* Commands: the text new_chunk_type returned to encode
    message,  \* Commands: the message given to encode
    out       \* Commands: what the last command returned

typeVars == << tin, ctype, valid >>
chunkVars == << pc, via, chunk, value, tamper, parsed >>
pngVars == << png, prev, op, ret >>
cmdVars == << file, cmd, token, message, out >>
vars == << tin, ctype, valid, pc, via, chunk, value, tamper, parsed,
           png, prev, op, ret, file, cmd, token, message, out >>

NoTamper == [kind |-> "None", at |-> 0, arg |-> 0]

TypeIdle == tin = None /\ ctype = None /\ valid = None
ChunkIdle ==
    /\ pc = "start" /\ via = "none" /\ chunk = None
    /\ value = << >> /\ tamper = NoTamper /\ parsed = None
PngIdle == png = << >> /\ prev = << >> /\ op = None /\ ret = None
CmdIdle ==
    /\ file = << >> /\ cmd = "none" /\ token = << >>
    /\ message = << >> /\ out = None

(***************************************************************************)
(* Chunk: new, as_bytes, a change made to the bytes in between, try_from   *)
(***************************************************************************)
NewFromBytes ==
    /\ pc = "start"
    /\ \E raw \in RawTypes, data \in Payloads :
          chunk' = Chunk_new(ChunkType_try_from(raw).val, data)
    /\ via' = "bytes"
    /\ pc' = "built"
    /\ UNCHANGED << value, tamper, parsed, typeVars, pngVars, cmdVars >>

NewFromText ==
    /\ pc = "start"
    /\ \E text \in TypeTexts, data \in Payloads :
          /\ ChunkType_from_str(text).tag = "Ok"
          /\ chunk' = Chunk_new(ChunkType_from_str(text).val, data)
    /\ via' = "text"
    /\ pc' = "built"
    /\ UNCHANGED << value, tamper, parsed, typeVars, pngVars, cmdVars >>

AsBytes ==
    /\ pc = "built"
    /\ value' = Chunk_as_bytes(chunk)
    /\ pc' = "serialized"
    /\ UNCHANGED << via, chunk, tamper, parsed, typeVars, pngVars, cmdVars >>

FlipByte(b, k) == IF (b \div Pow2(k)) % 2 = 1 THEN b - Pow2(k) ELSE b + Pow2(k)

\* one bit of the type, the payload or the stored checksum is flipped
FlipBit ==
    /\ pc = "serialized"
    /\ \E at \in (LENGTH_SIZE + 1)..Len(value), bit \in 0..7 :
          /\ value' = [value EXCEPT ![at] = FlipByte(value[at], bit)]
          /\ tamper' = [kind |-> "FlipBit", at |-> at, arg |-> bit]
    /\ pc' = "tampered"
    /\ UNCHANGED << via, chunk, parsed, typeVars, pngVars, cmdVars >>

\* the length field is overwritten
SetLength ==
    /\ pc = "serialized"
    /\ \E length \in 0..(chunk.length + CRC_SIZE + 1) :
          /\ length # chunk.length
          /\ value' = LenToBeBytes(length) \o SubSeq(value, LENGTH_SIZE + 1, Len(value))
          /\ tamper' = [kind |-> "SetLength", at |-> 1, arg |-> length]
    /\ pc' = "tampered"
    /\ UNCHANGED << via, chunk, parsed, typeVars, pngVars, cmdVars >>

\* the buffer is cut short
Truncate ==
    /\ pc = "serialized"
    /\ \E n \in 0..(Len(value) - 1) :
          /\ value' = SubSeq(value, 1, n)
          /\ tamper' = [kind |-> "Truncate", at |-> n + 1, arg |-> n]
    /\ pc' = "tampered"
    /\ UNCHANGED << via, chunk, parsed, typeVars, pngVars, cmdVars >>

\* a byte follows the record, as the next chunk does in a container
Extend ==
    /\ pc = "serialized"
    /\ \E b \in PayloadBytes :
          /\ value' = Append(value, b)
          /\ tamper' = [kind |-> "Extend", at |-> Len(value) + 1, arg |-> b]
    /\ pc' = "tampered"
    /\ UNCHANGED << via, chunk, parsed, typeVars, pngVars, cmdVars >>

TryFrom ==
    /\ pc \in {"serialized", "tampered"}
    /\ parsed' = Chunk_try_from(value)
    /\ pc' = "parsed"
    /\ UNCHANGED << via, chunk, value, tamper, typeVars, pngVars, cmdVars >>

Init == TypeIdle /\ ChunkIdle /\ PngIdle /\ CmdIdle

Next ==
    \/ NewFromBytes
    \/ NewFromText
    \/ AsBytes
    \/ FlipBit
    \/ SetLength
    \/ Truncate
    \/ Extend
    \/ TryFrom

Spec == Init /\ [][Next]_vars


(***************************************************************************)
(* ChunkType: a type code is made from text or from raw bytes, then asked  *)
(* whether it is valid                                                     *)
(***************************************************************************)
FromStr ==
    /\ tin = None
    /\ \E text \in Texts :
          /\ tin' = [tag |-> "text", val |-> text]
          /\ ctype' = ChunkType_from_str(text)
    /\ UNCHANGED << valid, chunkVars, pngVars, cmdVars >>

TryFromBytes ==
    /\ tin = None
    /\ \E raw \in RawTypes :
          /\ tin' = [tag |-> "bytes", val |-> raw]
          /\ ctype' = ChunkType_try_from(raw)
    /\ UNCHANGED << valid, chunkVars, pngVars, cmdVars >>

IsValid ==
    /\ ctype.tag = "Ok"
    /\ valid = None
    /\ valid' = Ok(is_valid(ctype.val))
    /\ UNCHANGED << tin, ctype, chunkVars, pngVars, cmdVars >>

TypeNext ==
    \/ FromStr
    \/ TryFromBytes
    \/ IsValid

TypeSpec == Init /\ [][TypeNext]_vars

(***************************************************************************)
(* Container: parsed from a valid buffer, then chunks are appended, looked *)
(* up and removed, and the container is serialized and parsed again        *)
(***************************************************************************)
IHDR == << 73, 72, 68, 82 >>
IEND == << 73, 69, 78, 68 >>
ruSt == << 114, 117, 83, 116 >>
Rust == << 82, 117, 115, 116 >>         \* third letter lowercase
zzZz == << 122, 122, 90, 122 >>

\* valid buffers: the bare signature, and the signature with two chunks
ValidFiles ==
    { STANDARD_HEADER,
      STANDARD_HEADER
        \o Chunk_as_bytes(Chunk_new(ChunkType_try_from(IHDR).val, << 0 >>))
        \o Chunk_as_bytes(Chunk_new(ChunkType_try_from(IEND).val, << >>)) }

AppendTexts == {ruSt, Rust, IEND}
AppendPayloads == {<< >>, << 255 >>}
LookupTexts == {IHDR, IEND, ruSt, Rust, zzZz, << 114, 117, 83 >>}

PngInit ==
    /\ TypeIdle /\ ChunkIdle /\ CmdIdle
    /\ \E bytes \in ValidFiles :
          /\ Png_try_from(bytes).tag = "Ok"
          /\ png = Png_try_from(bytes).val
    /\ prev = << >> /\ op = None /\ ret = None

AppendChunk(text, data) ==
    /\ Len(png) < MaxChunks
    /\ ChunkType_from_str(text).tag = "Ok"
    /\ png' = Png_append_chunk(png, Chunk_new(ChunkType_from_str(text).val, data))
    /\ prev' = png
    /\ op' = [tag |-> "append_chunk", arg |-> text]
    /\ ret' = None
    /\ UNCHANGED << typeVars, chunkVars, cmdVars >>

ChunkByType(text) ==
    /\ ret' = Png_chunk_by_type(png, text)
    /\ prev' = png
    /\ op' = [tag |-> "chunk_by_type", arg |-> text]
    /\ UNCHANGED << png, typeVars, chunkVars, cmdVars >>

RemoveChunk(text) ==
    /\ LET r == Png_remove_chunk(png, text)
       IN  png' = r.chunks /\ ret' = r.ret
    /\ prev' = png
    /\ op' = [tag |-> "remove_chunk", arg |-> text]
    /\ UNCHANGED << typeVars, chunkVars, cmdVars >>

\* as_bytes, then parse of what it wrote
Reparse ==
    /\ ret' = Png_try_from(Png_as_bytes(png))
    /\ prev' = png
    /\ op' = [tag |-> "reparse", arg |-> << >>]
    /\ UNCHANGED << png, typeVars, chunkVars, cmdVars >>

PngNext ==
    \/ \E text \in AppendTexts, data \in AppendPayloads : AppendChunk(text, data)
    \/ \E text \in LookupTexts : ChunkByType(text)
    \/ \E text \in LookupTexts : RemoveChunk(text)
    \/ Reparse

PngSpec == PngInit /\ [][PngNext]_vars

(***************************************************************************)
(* Commands (commands.rs): encode writes a message into the file under a   *)
(* freshly drawn type code, decode reads it back with that code.  The file *)
(* is taken to exist and to be readable and writable.                      *)
(***************************************************************************)
\* rand::Rng::gen_range(lo..hi): the values a draw from the half-open range
\* can give
gen_range(lo, hi) == lo..(hi - 1)

\* new_chunk_type with the third letter drawn from the lowercase range
Commands_new_chunk_type_ThreeLower ==
    << gen_range(97, 122), gen_range(97, 122), gen_range(97, 122), gen_range(65, 90) >>

\* Commands::new_chunk_type: the range each of the four pushed characters
\* is drawn from, b'a'..b'z' twice, then b'A'..b'Z' twice
Commands_new_chunk_type ==
    << gen_range(97, 122), gen_range(97, 122), gen_range(65, 90), gen_range(65, 90) >>

\* Chunk::data_as_string
Chunk_data_as_string(c) == from_utf8(c.data)

\* Commands::encode from the result of Png::try_from on the bytes of the
\* input file, with the text that new_chunk_type returned: the result and
\* the bytes the file holds after
Commands_encode(bytes, parsed_png, text, chunk_type_str) ==
    LET chunk_type == ChunkType_from_str(chunk_type_str)
    IN  IF parsed_png.tag # "Ok" THEN [ret |-> parsed_png, file |-> bytes]
        ELSE IF chunk_type.tag # "Ok" THEN [ret |-> Panic, file |-> bytes]
        ELSE [ret |-> Ok(<< >>),
              file |-> Png_as_bytes(
                          Png_append_chunk(parsed_png.val,
                                           Chunk_new(chunk_type.val, text)))]

\* Commands::decode on the bytes of the input file
Commands_decode(bytes, chunk_type) ==
    LET parsed_png == Png_try_from(bytes)
    IN  IF parsed_png.tag # "Ok" THEN parsed_png
        ELSE LET found == Png_chunk_by_type(parsed_png.val, chunk_type)
             IN  IF found.tag # "Ok" THEN found
                 ELSE Chunk_data_as_string(found.val)

\* the messages given to encode: "hi"
Messages == {<< 104, 105 >>}

\* the input file: the signature with no chunk after it
InputFiles == {f \in ValidFiles : Len(f) = Len(STANDARD_HEADER)}

CmdInit ==
    /\ TypeIdle /\ ChunkIdle /\ PngIdle
    /\ file \in InputFiles
    /\ cmd = "none" /\ token = << >> /\ message = << >> /\ out = None

Encode ==
    /\ cmd = "none"
    /\ LET parsed_png == Png_try_from(file)
       IN  \E text \in Messages,
              a \in Commands_new_chunk_type[1], b \in Commands_new_chunk_type[2],
              c \in Commands_new_chunk_type[3], d \in Commands_new_chunk_type[4] :
              LET chunk_type_str == << a, b, c, d >>
                  r == Commands_encode(file, parsed_png, text, chunk_type_str)
              IN  /\ file' = r.file
                  /\ out' = r.ret
                  /\ token' = chunk_type_str
                  /\ message' = text
    /\ cmd' = "encode"
    /\ UNCHANGED << typeVars, chunkVars, pngVars >>

\* decode with the token encode printed
Decode ==
    /\ cmd = "encode"
    /\ out' = Commands_decode(file, token)
    /\ cmd' = "decode"
    /\ UNCHANGED << file, token, message, typeVars, chunkVars, pngVars >>

CmdNext ==
    \/ Encode
    \/ Decode

CmdSpec == CmdInit /\ [][CmdNext]_vars

(***************************************************************************)
(* What the buffer handed to try_from holds, read off the bytes            *)
(***************************************************************************)
\* letters only, the byte at index 2 an uppercase letter
ValidTypeBytes(b) ==
    /\ \A i \in 1..4 : b[i] \in (65..90) \cup (97..122)
    /\ b[3] \in 65..90

FieldLength == LenFromBeBytes(SubSeq(value, 1, 4))
HoldsRecord == Len(value) >= 4 /\ Len(value) >= FieldLength + 12
FieldType == SubSeq(value, 5, 8)
FieldCrc == CrcFromBeBytes(SubSeq(value, FieldLength + 9, FieldLength + 12))
ComputedCrc == checksum_ieee(SubSeq(value, 5, FieldLength + 8))

(***************************************************************************)
(* Claims about Chunk, under Spec                                          *)
(***************************************************************************)

\* C1 as stated: for a chunk built by Chunk::new with any type code and any
\* payload, try_from(as_bytes()) succeeds and returns an equal chunk.
C1_RoundTripAnyType ==
    (pc = "parsed" /\ tamper = NoTamper) => parsed = Ok(chunk)

\* C1 amended: for a chunk built by Chunk::new with a type code that passes
\* is_valid(), try_from(as_bytes()) succeeds and returns a chunk with the
\* same type code, payload, length and checksum.
C1_RoundTripValidType ==
    (pc = "parsed" /\ tamper = NoTamper /\ ValidTypeBytes(chunk.chunk_type.bytes))
        => /\ parsed.tag = "Ok"
           /\ parsed.val.chunk_type = chunk.chunk_type
           /\ parsed.val.data = chunk.data
           /\ parsed.val.length = chunk.length
           /\ parsed.val.crc = chunk.crc

C1_Witness ==
    /\ pc = "parsed" /\ tamper = NoTamper /\ via = "text"
    /\ ValidTypeBytes(chunk.chunk_type.bytes)
    /\ chunk.data = << >>
    /\ parsed = Ok(chunk)

\* C3: after one bit of the type bytes or of the payload bytes of a
\* serialized chunk is flipped, try_from fails with InvalidCrc.
C3_BitFlipIsInvalidCrc ==
    (/\ pc = "parsed"
     /\ tamper.kind = "FlipBit"
     /\ tamper.at <= LENGTH_SIZE + CHUNK_TYPE_SIZE + chunk.length)
        => parsed.tag = "Err" /\ parsed.err.kind = "InvalidCrc"

C3_Witness ==
    /\ pc = "parsed"
    /\ tamper.kind = "FlipBit"
    /\ tamper.at = LENGTH_SIZE + CHUNK_TYPE_SIZE + chunk.length
    /\ chunk.length > 0
    /\ parsed.tag = "Err" /\ parsed.err.kind = "InvalidCrc"

\* C4 as stated: a buffer whose length field L disagrees with the payload
\* bytes present between the type bytes and the trailing checksum makes
\* try_from return the error value InvalidLength(L).
C4_LengthMismatchIsInvalidLength ==
    (/\ pc = "parsed"
     /\ tamper.kind \in {"SetLength", "Truncate"}
     /\ Len(value) >= 4
     /\ Len(value) # FieldLength + 12)
        => parsed = Err([enum |-> "ChunkError", kind |-> "InvalidLength",
                         arg |-> FieldLength])

\* C6: a chunk that try_from returns has length = number of payload bytes,
\* crc = CRC-32/IEEE over type bytes and payload, and a type code that
\* passes is_valid(); is_valid() is true iff the four bytes are letters and
\* the byte at index 2 is uppercase.
C6_ParsedChunkInvariants ==
    /\ (pc = "parsed" /\ parsed.tag = "Ok")
        => /\ parsed.val.length = Len(parsed.val.data)
           /\ parsed.val.crc =
                checksum_ieee(parsed.val.chunk_type.bytes \o parsed.val.data)
           /\ is_valid(parsed.val.chunk_type)
           /\ ValidTypeBytes(parsed.val.chunk_type.bytes)
    /\ (pc # "start")
        => (is_valid(chunk.chunk_type) <=> ValidTypeBytes(chunk.chunk_type.bytes))

C6_Witness ==
    /\ pc = "parsed" /\ parsed.tag = "Ok"
    /\ tamper.kind = "Extend"
    /\ Len(parsed.val.data) > 0

\* C9 as stated: a complete record (length field = payload size, stored
\* checksum = computed checksum) whose type bytes fail is_valid() makes
\* try_from return the error value InvalidChunkType with the type's text.
C9_InvalidTypeIsErrorValue ==
    (/\ pc = "parsed"
     /\ Len(value) >= 4
     /\ Len(value) = FieldLength + 12
     /\ FieldCrc = ComputedCrc
     /\ ~ValidTypeBytes(FieldType))
        => parsed = Err([enum |-> "ChunkError", kind |-> "InvalidChunkType",
                         arg |-> FieldType])

\* C10: try_from checks the checksum before the type code: a record whose
\* stored checksum differs from the computed one fails with
\* InvalidCrc(computed) whatever its type code, and InvalidLength or
\* InvalidChunkType is returned only when the checksum matches.
C10_ChecksumBeforeType ==
    (pc = "parsed" /\ HoldsRecord)
        => /\ (FieldCrc # ComputedCrc)
                => parsed = Err([enum |-> "ChunkError", kind |-> "InvalidCrc",
                                 arg |-> ComputedCrc])
           /\ (parsed.tag = "Err" /\ parsed.err.kind \in {"InvalidLength", "InvalidChunkType"})
                => FieldCrc = ComputedCrc

C10_Witness ==
    /\ pc = "parsed" /\ HoldsRecord
    /\ FieldCrc # ComputedCrc
    /\ ~ValidTypeBytes(FieldType)
    /\ from_utf8(FieldType).tag = "Err"
    /\ parsed = Err([enum |-> "ChunkError", kind |-> "InvalidCrc", arg |-> ComputedCrc])


(***************************************************************************)
(* Claims about ChunkType, under TypeSpec                                  *)
(***************************************************************************)

\* C5: from_str fails with InvalidChunkType when some byte is not an ASCII
\* letter, whatever the length; else with InconsistentByteLength(n) when the
\* byte count n is not 4; else it succeeds with those 4 bytes, and
\* is_valid() on the result is false when the third letter is lowercase.
C5_FromStrDecision ==
    (tin.tag = "text") =>
        LET text == tin.val
            letters == \A i \in 1..Len(text) : text[i] \in (65..90) \cup (97..122)
        IN  /\ ~letters
                => ctype = Err([enum |-> "ChunkTypeError", kind |-> "InvalidChunkType",
                                arg |-> text])
            /\ (letters /\ Len(text) # 4)
                => ctype = Err([enum |-> "ChunkTypeError",
                                kind |-> "InconsistentByteLength", arg |-> Len(text)])
            /\ (letters /\ Len(text) = 4)
                => /\ ctype = Ok([bytes |-> text])
                   /\ (valid # None /\ text[3] \in 97..122) => valid = Ok(FALSE)

C5_Witness ==
    /\ tin.tag = "text"
    /\ Len(tin.val) = 4
    /\ tin.val[3] \in 97..122
    /\ ctype = Ok([bytes |-> tin.val])
    /\ valid = Ok(FALSE)

(***************************************************************************)
(* Claims about the container, under PngSpec                               *)
(***************************************************************************)
\* positions in the sequence before the last operation whose type bytes are
\* the bytes of the text asked for
Matches == {i \in 1..Len(prev) : prev[i].chunk_type.bytes = op.arg}
FirstOfMatches == CHOOSE i \in Matches : \A j \in Matches : i <= j

\* C2 as stated: a container parsed from a valid buffer, with chunks built
\* by Chunk::new appended, is reproduced by parse(as_bytes()).
C2_ContainerRoundTripAnyType ==
    (op.tag = "reparse") => ret = Ok(png)

\* C2 amended: it is reproduced when every appended chunk's type code
\* passes is_valid().
C2_ContainerRoundTripValidTypes ==
    (/\ op.tag = "reparse"
     /\ \A i \in 1..Len(png) : ValidTypeBytes(png[i].chunk_type.bytes))
        => ret = Ok(png)

C2_Witness ==
    /\ op.tag = "reparse"
    /\ Len(png) = 3
    /\ png[1].chunk_type.bytes = IHDR
    /\ png[3].chunk_type.bytes = ruSt /\ png[3].data = << 255 >>
    /\ ret = Ok(png)

\* C7: remove_chunk(text) removes and returns the first chunk whose type
\* text is text, the others keeping their order; with no such chunk it
\* fails with not-found and leaves the sequence as it was.
C7_RemoveFirstMatch ==
    (op.tag = "remove_chunk") =>
        IF Matches # {}
            THEN /\ ret = Ok(prev[FirstOfMatches])
                 /\ Len(png) = Len(prev) - 1
                 /\ \A i \in 1..Len(png) :
                        png[i] = IF i < FirstOfMatches THEN prev[i] ELSE prev[i + 1]
            ELSE /\ ret = Err(NotFound)
                 /\ png = prev

C7_Witness ==
    /\ op.tag = "remove_chunk"
    /\ Len(prev) = 3
    /\ Matches = {2, 3}
    /\ prev[2] # prev[3]
    /\ ret = Ok(prev[2])
    /\ png = << prev[1], prev[3] >>

\* C8: chunk_by_type(text) returns the first chunk whose type text is text,
\* or not-found, and leaves the container as it was; append_chunk adds at
\* the end, so after a chunk of a type already present is appended,
\* chunk_by_type of that type still returns the earlier chunk.
C8_LookupFirstMatch ==
    /\ (op.tag = "chunk_by_type")
        => /\ png = prev
           /\ ret = IF Matches # {} THEN Ok(prev[FirstOfMatches]) ELSE Err(NotFound)
    /\ (op.tag = "append_chunk")
        => /\ Len(png) = Len(prev) + 1
           /\ SubSeq(png, 1, Len(prev)) = prev
           /\ png[Len(png)].chunk_type.bytes = op.arg
           /\ (Matches # {})
                => Png_chunk_by_type(png, op.arg) = Ok(prev[FirstOfMatches])

C8_Witness ==
    /\ op.tag = "chunk_by_type"
    /\ Cardinality({i \in 1..Len(png) : png[i].chunk_type.bytes = op.arg}) = 2
    /\ png[Len(png)].chunk_type.bytes = op.arg
    /\ ret.tag = "Ok"
    /\ ret.val # png[Len(png)]
    /\ ret.val = png[FirstOfMatches]


(***************************************************************************)
(* Claims about Commands, under CmdSpec                                    *)
(***************************************************************************)

\* C11: every text new_chunk_type returns is accepted by from_str and gives
\* a type code for which is_valid() is true, so encode does not panic and
\* the chunk it appends is accepted when the written file is parsed again:
\* decode with that token returns the message.
C11_TokenIsValidType ==
    /\ (cmd # "none")
        => /\ ChunkType_from_str(token) = Ok([bytes |-> token])
           /\ is_valid([bytes |-> token])
           /\ ValidTypeBytes(token)
    /\ (cmd = "encode") => out = Ok(<< >>)
    /\ (cmd = "decode") => out = Ok(message)

C11_Witness ==
    /\ cmd = "decode"
    /\ token = << 121, 97, 89, 65 >>
    /\ Len(file) = Len(STANDARD_HEADER) + LENGTH_SIZE + CHUNK_TYPE_SIZE + 2 + CRC_SIZE
    /\ out = Ok(<< 104, 105 >>)

=============================================================================
